---- MODULE Spec2Model ----
(***************************************************************************)
(* LearnHub admin backend: the admin router and the admin controllers.     *)
(* State: the Admin collection, the Course collection, the configured JWT  *)
(* secret, the session tokens held by clients, and the last response.      *)
(* One action per HTTP request: the router's gate followed by the handler. *)
(* `pending` holds the create requests that are suspended at an await; it  *)
(* is used where the interleaving of two requests is explored.             *)
(***************************************************************************)
EXTENDS Integers, Sequences, FiniteSets, TLC

VARIABLES adminJwtSecret, admins, courses, nextCourseId, issued, res, pending

vars == <<adminJwtSecret, admins, courses, nextCourseId, issued, res, pending>>

----------------------------------------------------------------------------
(* Bounds *)

\* Course documents ever inserted (ids 1..MaxCourses).
MaxCourses == 2

\* Admin documents the Admin collection may hold.
MaxAdmins == 3

\* Create requests the server may be handling at the same time.
MaxRequests == 2

----------------------------------------------------------------------------
(* Values *)

\* A body field that the JSON / form body does not carry (undefined).
Absent == "<undefined>"

\* A null / undefined result of a call.
Null == <<>>

Emails == {"a@x.com", "b@x.com"}
EmailInputs == Emails \cup {"not-an-email"}
RegisterPasswords == {"secret1", "123"}
LoginPasswords == {"secret1", "secret2", "123"}
FirstNames == {"", "Jane", "John"}
LastNames == {"Doe"}

\* req.admin when no identity was attached to the request.
NoAdmin ==
    [id |-> 0, email |-> "", firstName |-> "", lastName |-> "", password |-> Null]

\* The secret the environment may configure; NoSecret is an unset variable.
NoSecret == ""
Secrets == {NoSecret, "env-secret"}

----------------------------------------------------------------------------
(* Schemas *)

IsString(v) == v # Absent

\* z.string().email()
IsEmail(v) == IsString(v) /\ v \in Emails

\* z.string().min(6)
MinSix(v) == IsString(v) /\ v \notin {"", "123"}

\* userSchema.safeParse(body).success
userSchema(body) ==
    /\ IsEmail(body.email)
    /\ MinSix(body.password)
    /\ IsString(body.firstName)
    /\ IsString(body.lastName)

\* loginSchema.safeParse(body).success
loginSchema(body) ==
    /\ IsEmail(body.email)
    /\ MinSix(body.password)

\* courseSchema.safeParse(body).success: every field is a required string.
courseSchema(body) ==
    /\ IsString(body.title)
    /\ IsString(body.description)
    /\ IsString(body.price)

\* JavaScript truthiness of a string-or-undefined value.
Truthy(v) == v # Absent /\ v # ""

----------------------------------------------------------------------------
(* Utilities outside the controllers *)

\* hashPass: a salted one-way digest, never the plaintext.
hashPass(password) == <<"$2b$", "salt", password>>

\* verifyPass: recompute with the digest's salt and compare.
verifyPass(password, digest) ==
    /\ Len(digest) = 3
    /\ digest = <<"$2b$", digest[2], password>>

\* The key login signs with: the configured secret or the built-in default.
adminSecreteKey == IF adminJwtSecret # NoSecret THEN adminJwtSecret ELSE "qazplm"

\* signToken(admin, key)
signToken(admin, key) == [sub |-> admin.id, sig |-> key]

\* uploadImage(localPath) when it returns a URL.
uploadImage(path) == <<"https://res.cloudinary.com/", path>>

\* What an upload call can do: return a URL, return nothing, or throw.
UploadOutcomes == {"ok", "null", "throw"}

\* req.file after upload.single("coverImg"): undefined when the request
\* carried no file.
NoFile == [none |-> TRUE]
Files == {NoFile, [path |-> "uploads/cover.png"], [path |-> ""]}

----------------------------------------------------------------------------
(* Responses *)

NoCookie == [sub |-> 0, sig |-> ""]

\* The last request's route and req.admin, and the response it was given.
\* image: how far the handler got with the cover image ("unread", "nofile",
\* "nopath", or the outcome of the upload call).
\* thrown: the store or library call that threw while the request was
\* handled, "" when none did.  status 0: no response was written.
Response(op, admin, status) ==
    [op |-> op, admin |-> admin.id, status |-> status, error |-> "",
     message |-> "", data |-> {}, user |-> {}, setCookie |-> {},
     clearCookie |-> FALSE, image |-> "unread", thrown |-> ""]

Error(op, admin, status, text) ==
    [Response(op, admin, status) EXCEPT !.error = text]

\* res.json({error: error.message}) from a catch block: the status stays 200.
Caught(op, admin, text) == Error(op, admin, 200, text)

----------------------------------------------------------------------------
(* Requests *)

RegisterBodies ==
    [email : EmailInputs, password : RegisterPasswords,
     firstName : FirstNames, lastName : LastNames]

LoginBodies == [email : EmailInputs, password : LoginPasswords]

\* Bodies that carry only some of the three course fields.
PartialBodies ==
    {[title |-> Absent, description |-> Absent, price |-> "abc"],
     [title |-> "Intro", description |-> Absent, price |-> Absent]}

\* The add-course form: filled in, or with the title or the description
\* left blank.
CreateBodies ==
    [title : {"Intro", "Adv"}, description : {"d1"}, price : {"10", "abc"}]
    \cup {[title |-> "", description |-> "d1", price |-> "10"],
          [title |-> "Intro", description |-> "", price |-> "10"]}
    \cup PartialBodies

\* The edit-course form: an empty string is a field left blank.
UpdateBodies ==
    [title : {"", "Intro"}, description : {"", "d1"}, price : {"", "abc"}]
    \cup PartialBodies

\* The few course bodies used while the admin service itself is explored.
StartupBodies ==
    {[title |-> "Intro", description |-> "d1", price |-> "10"],
     [title |-> "", description |-> "d1", price |-> "10"]}
    \cup PartialBodies

\* A token a client can make without logging in: one signed with the
\* default key that is written in the source.
Forged == {[sub |-> 1, sig |-> "qazplm"]}

\* The adminSessionId cookie a request may carry.
Cookies == {NoCookie} \cup issued \cup Forged

CourseIds == 1..MaxCourses

\* The create requests that can be in flight together.
Requests == 1..MaxRequests

\* A request slot with no create suspended in it.
Idle == [stage |-> "idle", admin |-> NoAdmin, title |-> "", description |-> "",
         price |-> "", path |-> "", imageURL |-> Null]

----------------------------------------------------------------------------
(* The router and its gate *)

\* Routes registered before adminRouter.use(checkAuth).
PublicRoutes == {"register", "login"}

\* Faulty variant: adminRouter.use(checkAuth) placed after the routes, so that
\* none of them is gated.
GatedRoutesNone == {}

\* Routes registered after adminRouter.use(checkAuth).
GatedRoutes == {"logout", "create", "list"}

\* The /course/:id routes the frontend calls with credentials; they are
\* mounted behind the gate like every course operation.
CourseIdRoutes == {"update", "delete"}

\* checkAuth: the admin the cookie's token resolves to, NoAdmin when the
\* cookie is absent, its signature is wrong, or no such admin exists.
checkAuth(cookie) ==
    IF /\ cookie # NoCookie
       /\ cookie.sig = adminSecreteKey
       /\ \E a \in admins : a.id = cookie.sub
    THEN CHOOSE a \in admins : a.id = cookie.sub
    ELSE NoAdmin

\* The gate's own answer to a request it does not let through.
GateRejects(route) ==
    /\ res' = Error(route, NoAdmin, 401, "Unauthorized")
    /\ UNCHANGED <<adminJwtSecret, admins, courses, nextCourseId, issued>>

\* Whether the gate stops a request to `route` carrying `cookie`.
Blocked(route, cookie) ==
    /\ route \in GatedRoutes \cup CourseIdRoutes
    /\ checkAuth(cookie) = NoAdmin

\* req.admin as the handler of `route` sees it: set by the gate when the
\* route is behind it, undefined otherwise.
reqAdmin(route, cookie) ==
    IF route \in GatedRoutes \cup CourseIdRoutes THEN checkAuth(cookie) ELSE NoAdmin

----------------------------------------------------------------------------
(* Store queries *)

\* Faulty variant: the lookup by email finds nothing.
AdminFindOneNothing(email) == {}

\* Admin.findOne({ email })
AdminFindOne(email) == {a \in admins : a.email = email}

\* Faulty variant: the duplicate lookup filters by title alone.
CourseFindOneByTitle(title, createdBy) == {c \in courses : c.title = title}

\* Course.findOne({ title, createdBy })
CourseFindOne(title, createdBy) ==
    {c \in courses : c.title = title /\ c.createdBy = createdBy}

\* Faulty variant: the listing query has no createdBy filter.
CourseFindAll(createdBy) == courses

\* Course.find({ createdBy })
CourseFind(createdBy) == {c \in courses : c.createdBy = createdBy}

\* The document findByIdAndUpdate / findByIdAndDelete selects: by id alone.
CourseFindById(id) == {c \in courses : c.id = id}

\* The _id the store gives a new Admin document.
NewAdminId == Cardinality(admins) + 1

----------------------------------------------------------------------------
(* Admin handlers *)

\* Admin.create and Course.create return the document or throw, so the
\* handlers' "if (!user)" and "if (!course)" branches are never taken; the
\* route parameter :id is never empty, so neither is "if (!courseId)".
handleAdminRegister(body) ==
    /\ UNCHANGED <<adminJwtSecret, courses, nextCourseId, issued>>
    /\ IF ~userSchema(body)
       THEN /\ res' = Error("register", NoAdmin, 400, "ZodError")
            /\ UNCHANGED admins
       ELSE IF ~Truthy(body.email) \/ ~Truthy(body.password)
               \/ ~Truthy(body.firstName) \/ ~Truthy(body.lastName)
       THEN /\ res' = Error("register", NoAdmin, 400, "Missing required fields")
            /\ UNCHANGED admins
       ELSE IF AdminFindOne(body.email) # {}
       THEN /\ res' = Error("register", NoAdmin, 400, "Admin already exists")
            /\ UNCHANGED admins
       ELSE \E hashedPass \in {hashPass(body.password), Null} :
            IF hashedPass = Null
            THEN /\ res' = Error("register", NoAdmin, 500, "Error in pass hassing")
                 /\ UNCHANGED admins
            ELSE LET user == [id |-> NewAdminId, email |-> body.email,
                              firstName |-> body.firstName,
                              lastName |-> body.lastName, password |-> hashedPass]
                 IN /\ Cardinality(admins) < MaxAdmins
                    /\ admins' = admins \cup {user}
                    /\ res' = [Response("register", NoAdmin, 201) EXCEPT
                                 !.message = "Admin created successfully",
                                 !.user = {user}]

\* Faulty variant: the result of the password check is ignored.
LoginRejectsNothing(passCheck) == FALSE

\* if (!passCheck)
LoginRejectsPassword(passCheck) == ~passCheck

handleAdminLogin(body) ==
    /\ UNCHANGED <<adminJwtSecret, admins, courses, nextCourseId>>
    /\ IF ~loginSchema(body)
       THEN /\ res' = Error("login", NoAdmin, 400, "ZodError")
            /\ UNCHANGED issued
       ELSE IF ~Truthy(body.email) \/ ~Truthy(body.password)
       THEN /\ res' = Error("login", NoAdmin, 400, "Missing required fields")
            /\ UNCHANGED issued
       ELSE IF AdminFindOne(body.email) = {}
       THEN /\ res' = Error("login", NoAdmin, 400, "Admin doesnot exists")
            /\ UNCHANGED issued
       ELSE \E userExists \in AdminFindOne(body.email) :
            IF LoginRejectsPassword(verifyPass(body.password, userExists.password))
            THEN /\ res' = Error("login", NoAdmin, 404, "Invalid password")
                 /\ UNCHANGED issued
            ELSE LET token == signToken(userExists, adminSecreteKey)
                 IN /\ res' = [Response("login", NoAdmin, 200) EXCEPT
                                 !.message = "Admin logged in successfully",
                                 !.user = {userExists},
                                 !.setCookie = {token}]
                    /\ issued' = issued \cup {token}

\* Variant: a logout that takes the admin's tokens out of circulation.
handleAdminLogoutRevoking(admin) ==
    /\ UNCHANGED <<adminJwtSecret, admins, courses, nextCourseId>>
    /\ issued' = {t \in issued : t.sub # admin.id}
    /\ IF admin = NoAdmin
       THEN res' = Error("logout", admin, 400, "Admin not found")
       ELSE res' = [Response("logout", admin, 200) EXCEPT
                      !.message = "Admin logged out successfully",
                      !.clearCookie = TRUE]

handleAdminLogout(admin) ==
    /\ UNCHANGED <<adminJwtSecret, admins, courses, nextCourseId, issued>>
    /\ IF admin = NoAdmin
       THEN res' = Error("logout", admin, 400, "Admin not found")
       ELSE res' = [Response("logout", admin, 200) EXCEPT
                      !.message = "Admin logged out successfully",
                      !.clearCookie = TRUE]

----------------------------------------------------------------------------
(* Course handlers *)

\* Faulty variant: a missing upload URL is not checked.
UploadRejectedNever(imageURL) == FALSE

\* if (!imageURL)
UploadRejected(imageURL) == imageURL = Null

\* Faulty variant: the course is attributed to the first admin, whoever acts.
NewCourseOfFirstAdmin(admin, body, imageURL) ==
    [id |-> nextCourseId, title |-> body.title,
     description |-> body.description, price |-> body.price,
     imageURL |-> imageURL,
     ownerName |-> <<"Jane", " ", "Doe">>,
     createdBy |-> 1]

\* The document Course.create is given.
NewCourse(admin, body, imageURL) ==
    [id |-> nextCourseId, title |-> body.title,
     description |-> body.description, price |-> body.price,
     imageURL |-> imageURL,
     ownerName |-> <<admin.firstName, " ", admin.lastName>>,
     createdBy |-> admin.id]

\* From the read of req.file.path on: the image checks, the upload, the insert.
CreateWithImage(admin, body, file) ==
    IF file = NoFile
    \* req.file.path on undefined throws a TypeError; the catch block answers.
    THEN /\ res' = [Caught("create", admin, "Cannot read properties of undefined")
                      EXCEPT !.image = "nofile"]
         /\ UNCHANGED <<courses, nextCourseId>>
    ELSE IF ~Truthy(file.path)
    THEN /\ res' = [Error("create", admin, 400, "Image is required")
                      EXCEPT !.image = "nopath"]
         /\ UNCHANGED <<courses, nextCourseId>>
    ELSE \E outcome \in UploadOutcomes :
         LET imageURL == IF outcome = "ok" THEN uploadImage(file.path) ELSE Null
         IN IF outcome = "throw"
            THEN /\ res' = [Caught("create", admin, "upload error")
                              EXCEPT !.image = outcome]
                 /\ UNCHANGED <<courses, nextCourseId>>
            ELSE IF UploadRejected(imageURL)
            THEN /\ res' = [Error("create", admin, 500, "Error in uploading image")
                              EXCEPT !.image = outcome]
                 /\ UNCHANGED <<courses, nextCourseId>>
            ELSE LET course == NewCourse(admin, body, imageURL)
                 IN /\ nextCourseId <= MaxCourses
                    /\ courses' = courses \cup {course}
                    /\ nextCourseId' = nextCourseId + 1
                    /\ res' = [Response("create", admin, 201) EXCEPT
                                 !.message = "Course created successfully",
                                 !.data = {course},
                                 !.image = outcome]

handleCourseCreation(admin, body) ==
    /\ UNCHANGED <<adminJwtSecret, admins, issued>>
    /\ IF admin = NoAdmin
       THEN /\ res' = Error("create", admin, 401, "User is unauthorized")
            /\ UNCHANGED <<courses, nextCourseId>>
       ELSE IF ~courseSchema(body)
       THEN /\ res' = Error("create", admin, 400, "ZodError")
            /\ UNCHANGED <<courses, nextCourseId>>
       ELSE IF ~Truthy(body.title) \/ ~Truthy(body.description)
       THEN /\ res' = Error("create", admin, 400, "Missing required fields")
            /\ UNCHANGED <<courses, nextCourseId>>
       ELSE IF CourseFindOne(body.title, admin.id) # {}
       THEN /\ res' = Error("create", admin, 400, "Course already exists")
            /\ UNCHANGED <<courses, nextCourseId>>
       ELSE \E file \in Files : CreateWithImage(admin, body, file)

handleAdminCourseDisplay(admin) ==
    /\ UNCHANGED <<adminJwtSecret, admins, courses, nextCourseId, issued>>
    /\ IF admin = NoAdmin
       THEN res' = Error("list", admin, 401, "User is unauthorized")
       ELSE res' = [Response("list", admin, 200) EXCEPT
                      !.message = "Courses fetched successfully",
                      !.data = CourseFind(admin.id)]

\* courseInputData: a field is set only when its value is truthy.
courseInputData(body) ==
    [title |-> IF Truthy(body.title) THEN {body.title} ELSE {},
     description |-> IF Truthy(body.description) THEN {body.description} ELSE {},
     price |-> IF Truthy(body.price) THEN {body.price} ELSE {}]

\* Faulty variant: the document is replaced by `input`, so that the fields
\* an update does not carry are lost.
ApplyUpdateReplacing(c, input) ==
    [id |-> c.id,
     title |-> IF input.title = {} THEN c.title ELSE CHOOSE v \in input.title : TRUE,
     description |->
        IF input.description = {} THEN c.description
        ELSE CHOOSE v \in input.description : TRUE,
     price |-> IF input.price = {} THEN c.price ELSE CHOOSE v \in input.price : TRUE,
     imageURL |-> Null,
     ownerName |-> Null,
     createdBy |-> 0]

\* The document after the fields of `input` are set on it.
ApplyUpdate(c, input) ==
    [c EXCEPT
       !.title = IF input.title = {} THEN @ ELSE CHOOSE v \in input.title : TRUE,
       !.description =
          IF input.description = {} THEN @ ELSE CHOOSE v \in input.description : TRUE,
       !.price = IF input.price = {} THEN @ ELSE CHOOSE v \in input.price : TRUE]

\* The documents the update of `admin` on `courseId` is applied to.
UpdateTargets(admin, courseId) == CourseFindById(courseId)

handleCourseUpdate(admin, courseId, body) ==
    /\ UNCHANGED <<adminJwtSecret, admins, nextCourseId, issued>>
    /\ IF admin = NoAdmin
       THEN /\ res' = Error("update", admin, 401, "Unauthorized")
            /\ UNCHANGED courses
       ELSE IF ~courseSchema(body)
       THEN /\ res' = Error("update", admin, 400, "ZodError")
            /\ UNCHANGED courses
       ELSE IF UpdateTargets(admin, courseId) = {}
       THEN /\ res' = Error("update", admin, 500, "Error in updating course")
            /\ UNCHANGED courses
       ELSE \E c \in UpdateTargets(admin, courseId) :
            LET updatedCourse == ApplyUpdate(c, courseInputData(body))
            IN /\ courses' = (courses \ {c}) \cup {updatedCourse}
               /\ res' = [Response("update", admin, 200) EXCEPT
                            !.message = "Course updated successfully",
                            !.data = {updatedCourse}]

handleCourseDelete(admin, courseId) ==
    /\ UNCHANGED <<adminJwtSecret, admins, nextCourseId, issued>>
    /\ IF admin = NoAdmin
       THEN /\ res' = Error("delete", admin, 401, "Unauthorized")
            /\ UNCHANGED courses
       ELSE IF CourseFindById(courseId) = {}
       THEN /\ res' = Error("delete", admin, 500, "Error in deleting course")
            /\ UNCHANGED courses
       ELSE \E c \in CourseFindById(courseId) :
            /\ courses' = courses \ {c}
            /\ res' = [Response("delete", admin, 200) EXCEPT
                         !.message = "Course deleted successfully"]

----------------------------------------------------------------------------
(* Requests, one at a time: each runs to completion before the next. *)

Register ==
    /\ UNCHANGED pending
    /\ \E body \in RegisterBodies : handleAdminRegister(body)

Login ==
    /\ UNCHANGED pending
    /\ \E body \in LoginBodies : handleAdminLogin(body)

Logout ==
    /\ UNCHANGED pending
    /\ \E cookie \in Cookies :
        IF Blocked("logout", cookie)
        THEN GateRejects("logout")
        ELSE handleAdminLogout(reqAdmin("logout", cookie))

CourseCreationFrom(bodies) ==
    /\ UNCHANGED pending
    /\ \E cookie \in Cookies :
        IF Blocked("create", cookie)
        THEN GateRejects("create")
        ELSE \E body \in bodies :
                 handleCourseCreation(reqAdmin("create", cookie), body)

CourseDisplay ==
    /\ UNCHANGED pending
    /\ \E cookie \in Cookies :
        IF Blocked("list", cookie)
        THEN GateRejects("list")
        ELSE handleAdminCourseDisplay(reqAdmin("list", cookie))

CourseUpdateFrom(bodies) ==
    /\ UNCHANGED pending
    /\ \E cookie \in Cookies :
        IF Blocked("update", cookie)
        THEN GateRejects("update")
        ELSE \E courseId \in CourseIds, body \in bodies :
                 handleCourseUpdate(reqAdmin("update", cookie), courseId, body)

CourseDelete ==
    /\ UNCHANGED pending
    /\ \E cookie \in Cookies :
        IF Blocked("delete", cookie)
        THEN GateRejects("delete")
        ELSE \E courseId \in CourseIds :
                 handleCourseDelete(reqAdmin("delete", cookie), courseId)

----------------------------------------------------------------------------
(* The service from start-up: empty collections, nobody logged in. *)

StartupCreate == CourseCreationFrom(StartupBodies)

StartupUpdate == CourseUpdateFrom(StartupBodies)

Init ==
    /\ adminJwtSecret \in Secrets
    /\ admins = {}
    /\ courses = {}
    /\ nextCourseId = 1
    /\ issued = {}
    /\ res = Response("start", NoAdmin, 0)
    /\ pending = [i \in Requests |-> Idle]

Next ==
    \/ Register
    \/ Login
    \/ Logout
    \/ StartupCreate
    \/ CourseDisplay
    \/ StartupUpdate
    \/ CourseDelete

Spec == Init /\ [][Next]_vars

----------------------------------------------------------------------------
(* The course catalogue once two admins have registered and logged in. *)

Jane ==
    [id |-> 1, email |-> "a@x.com", firstName |-> "Jane", lastName |-> "Doe",
     password |-> hashPass("secret1")]

John ==
    [id |-> 2, email |-> "b@x.com", firstName |-> "John", lastName |-> "Doe",
     password |-> hashPass("secret1")]

\* A state Spec reaches by two registrations and two logins.
CatalogReady ==
    /\ admins = {Jane, John}
    /\ issued = {signToken(Jane, adminSecreteKey), signToken(John, adminSecreteKey)}
    /\ courses = {}
    /\ nextCourseId = 1

CatalogInit ==
    /\ adminJwtSecret \in Secrets \ {NoSecret}
    /\ CatalogReady
    /\ res = Response("start", NoAdmin, 0)
    /\ pending = [i \in Requests |-> Idle]

CourseCreation == CourseCreationFrom(CreateBodies)

CourseUpdate == CourseUpdateFrom(UpdateBodies)

CatalogNext ==
    \/ CourseCreation
    \/ CourseDisplay
    \/ CourseUpdate
    \/ CourseDelete

SpecCatalog == CatalogInit /\ [][CatalogNext]_vars

----------------------------------------------------------------------------
(* Create requests in flight together.  handleCourseCreation suspends at    *)
(* each await: after Course.findOne, after uploadImage, and Course.create   *)
(* runs when it resumes.  Requests interleave at these points.              *)

\* The add-course form of the requests that race: every body passes
\* courseSchema and the required-field test.
RaceBodies ==
    [title : {"Intro", "Adv"}, description : {"d1"}, price : {"10"}]

\* The request body a suspended create carries.
PendingBody(r) == [title |-> r.title, description |-> r.description, price |-> r.price]

\* From the gate to the call of uploadImage: the request is answered at once
\* when a check fails, and is suspended in slot i when all of them pass.
CreateCheck(i) ==
    /\ pending[i] = Idle
    /\ \E cookie \in Cookies :
          IF Blocked("create", cookie)
          THEN GateRejects("create") /\ UNCHANGED pending
          ELSE \E body \in RaceBodies :
               LET admin == reqAdmin("create", cookie)
               IN IF CourseFindOne(body.title, admin.id) # {}
                  THEN /\ res' = Error("create", admin, 400, "Course already exists")
                       /\ UNCHANGED <<adminJwtSecret, admins, courses,
                                      nextCourseId, issued, pending>>
                  ELSE \E file \in Files :
                       IF file = NoFile \/ ~Truthy(file.path)
                       THEN /\ CreateWithImage(admin, body, file)
                            /\ UNCHANGED <<adminJwtSecret, admins, issued, pending>>
                       ELSE /\ pending' = [pending EXCEPT ![i] =
                                             [stage |-> "uploading", admin |-> admin,
                                              title |-> body.title,
                                              description |-> body.description,
                                              price |-> body.price,
                                              path |-> file.path,
                                              imageURL |-> Null]]
                            /\ UNCHANGED <<adminJwtSecret, admins, courses,
                                           nextCourseId, issued, res>>

\* uploadImage settles: the request is answered when it threw or returned
\* nothing, and goes on to Course.create with the URL otherwise.
CreateUpload(i) ==
    /\ pending[i].stage = "uploading"
    /\ UNCHANGED <<adminJwtSecret, admins, courses, nextCourseId, issued>>
    /\ \E outcome \in UploadOutcomes :
          LET r == pending[i]
              imageURL == IF outcome = "ok" THEN uploadImage(r.path) ELSE Null
          IN IF outcome = "throw"
             THEN /\ res' = [Caught("create", r.admin, "upload error")
                               EXCEPT !.image = outcome]
                  /\ pending' = [pending EXCEPT ![i] = Idle]
             ELSE IF UploadRejected(imageURL)
             THEN /\ res' = [Error("create", r.admin, 500, "Error in uploading image")
                               EXCEPT !.image = outcome]
                  /\ pending' = [pending EXCEPT ![i] = Idle]
             ELSE /\ pending' = [pending EXCEPT ![i] =
                                   [r EXCEPT !.stage = "creating",
                                             !.imageURL = imageURL]]
                  /\ UNCHANGED res

\* Variant: Course.create refuses a (title, createdBy) that is already
\* stored, as a unique index on the collection would.
CreateInsertUnique(i) ==
    LET r == pending[i]
        course == NewCourse(r.admin, PendingBody(r), r.imageURL)
    IN /\ r.stage = "creating"
       /\ nextCourseId <= MaxCourses
       /\ UNCHANGED <<adminJwtSecret, admins, issued>>
       /\ pending' = [pending EXCEPT ![i] = Idle]
       /\ IF CourseFindOne(r.title, r.admin.id) # {}
          THEN /\ res' = Caught("create", r.admin, "E11000 duplicate key error")
               /\ UNCHANGED <<courses, nextCourseId>>
          ELSE /\ courses' = courses \cup {course}
               /\ nextCourseId' = nextCourseId + 1
               /\ res' = [Response("create", r.admin, 201) EXCEPT
                            !.message = "Course created successfully",
                            !.data = {course},
                            !.image = "ok"]

\* Course.create and the 201 answer: nothing is checked again.
CreateInsert(i) ==
    LET r == pending[i]
        course == NewCourse(r.admin, PendingBody(r), r.imageURL)
    IN /\ r.stage = "creating"
       /\ nextCourseId <= MaxCourses
       /\ UNCHANGED <<adminJwtSecret, admins, issued>>
       /\ pending' = [pending EXCEPT ![i] = Idle]
       /\ courses' = courses \cup {course}
       /\ nextCourseId' = nextCourseId + 1
       /\ res' = [Response("create", r.admin, 201) EXCEPT
                    !.message = "Course created successfully",
                    !.data = {course},
                    !.image = "ok"]

CourseCheck == \E i \in Requests : CreateCheck(i)

CourseUpload == \E i \in Requests : CreateUpload(i)

CourseInsert == \E i \in Requests : CreateInsert(i)

RaceNext ==
    \/ CourseCheck
    \/ CourseUpload
    \/ CourseInsert

SpecRace == CatalogInit /\ [][RaceNext]_vars

----------------------------------------------------------------------------
(* Properties *)

\* The operations the specification calls protected.
ProtectedOperations == {"logout", "create", "list", "update", "delete"}

\* The URLs the blob store hands out for the files a request can carry.
UploadedURLs == {uploadImage(f.path) : f \in {g \in Files : g # NoFile /\ g.path # ""}}

\* C1: a successful listing for admin A returns exactly the stored courses
\* whose createdBy is A's id, so never a course of another admin; a listing
\* for a resolved admin always succeeds.
C1_ListOnlyOwnCourses ==
    res.op = "list" /\ res.admin # 0 =>
        /\ res.status = 200
        /\ \A c \in res.data : c.createdBy = res.admin
        /\ res.data = {c \in courses : c.createdBy = res.admin}

\* C1 witness: a non-empty listing while another admin's course is stored.
C1_Witness ==
    /\ res.op = "list"
    /\ res.status = 200
    /\ res.data # {}
    /\ \E c \in courses : c.createdBy # res.admin

\* C2: a request to a protected operation that carries no resolved admin is
\* answered 401 and touches neither collection nor the blob store; only
\* register and login answer anything else without an identity.
C2_GateBeforeHandlers ==
    [][res'.op \in ProtectedOperations /\ res'.admin = 0 =>
          /\ res'.status = 401
          /\ res'.error # ""
          /\ res'.data = {}
          /\ res'.image = "unread"
          /\ courses' = courses
          /\ nextCourseId' = nextCourseId
          /\ admins' = admins]_vars

\* C2 witness: an unauthenticated create is turned away while a course is
\* stored and a session token is out.
C2_Witness ==
    /\ res.op = "create"
    /\ res.admin = 0
    /\ res.status = 401
    /\ courses # {}
    /\ issued # {}

\* C3 (as claimed): whenever a stored course changes, the acting admin is the
\* course's createdBy.
C3_MutatedOnlyByOwner ==
    [][\A c \in courses : \A d \in courses' :
          d.id = c.id /\ d # c => res'.admin = c.createdBy]_vars

\* C4 (as claimed): no two stored courses share (title, createdBy).
C4_TitleUniquePerOwner ==
    \A c, d \in courses :
        c.title = d.title /\ c.createdBy = d.createdBy => c = d

\* Create bodies that pass validation.
ValidCreateBodies ==
    {b \in CreateBodies : courseSchema(b) /\ Truthy(b.title) /\ Truthy(b.description)}

\* C5: a create by admin A with title T is answered "Course already exists"
\* (400, nothing added) exactly when a course (T, A.id) is stored; otherwise,
\* whoever else owns a course titled T, a create whose upload returned a URL
\* is answered 201 and adds exactly one course (T, A.id).
C5_CreateConflictPerOwner ==
    [][\A admin \in admins : \A body \in ValidCreateBodies :
          res'.op = "create" /\ res'.admin = admin.id
          /\ handleCourseCreation(admin, body) =>
              IF \E c \in courses : c.title = body.title /\ c.createdBy = admin.id
              THEN /\ res'.status = 400
                   /\ res'.error = "Course already exists"
                   /\ courses' = courses
              ELSE /\ res'.error # "Course already exists"
                   /\ res'.image = "ok" =>
                        /\ res'.status = 201
                        /\ \E c \in courses' \ courses :
                              /\ c.title = body.title
                              /\ c.createdBy = admin.id
                              /\ courses' = courses \cup {c}]_vars

\* C5 witness: a duplicate create was just refused while the same title is
\* stored under both admins.
C5_Witness ==
    /\ res.op = "create"
    /\ res.error = "Course already exists"
    /\ \E c, d \in courses : c.title = d.title /\ c.createdBy # d.createdBy

\* C6 (as claimed): a create that carries no file is answered 400 "Image is
\* required", with no upload and no new course.
C6_NoFileIsImageRequired ==
    [][res'.op = "create" /\ res'.image = "nofile" =>
          /\ res'.status = 400
          /\ res'.error = "Image is required"
          /\ courses' = courses]_vars

Supplied(v) == v # Absent /\ v # ""

\* C8 (as claimed): an update of an existing course with any subset of the
\* three fields succeeds, sets the supplied fields and keeps the others.
C8_PartialUpdateSucceeds ==
    [][\A admin \in admins : \A courseId \in CourseIds : \A body \in UpdateBodies :
          \A c \in courses :
              c.id = courseId
              /\ res'.op = "update" /\ res'.admin = admin.id
              /\ handleCourseUpdate(admin, courseId, body) =>
                  /\ res'.status = 200
                  /\ \E d \in courses' :
                        /\ d.id = courseId
                        /\ d.title = IF Supplied(body.title) THEN body.title ELSE c.title
                        /\ d.description =
                              IF Supplied(body.description) THEN body.description
                              ELSE c.description
                        /\ d.price = IF Supplied(body.price) THEN body.price ELSE c.price]_vars

ValidRegisterBodies ==
    {b \in RegisterBodies : userSchema(b) /\ Truthy(b.firstName) /\ Truthy(b.lastName)}

\* C10: a valid register for a stored email is answered 400 "Admin already
\* exists" and persists nothing; for an email not yet stored it is never
\* answered so, and when answered 201 it has persisted exactly one admin with
\* that email; the Admin collection never holds two admins with one email.
C10_RegisterOncePerEmail ==
    [][/\ \A body \in ValidRegisterBodies :
             res'.op = "register" /\ handleAdminRegister(body) =>
                 IF \E a \in admins : a.email = body.email
                 THEN /\ res'.status = 400
                      /\ res'.error = "Admin already exists"
                      /\ admins' = admins
                 ELSE /\ res'.error # "Admin already exists"
                      /\ res'.status \in {201, 500}
                      /\ res'.status = 201 =>
                            \E a \in admins' \ admins :
                                /\ a.email = body.email
                                /\ admins' = admins \cup {a}
                      /\ res'.status = 500 => admins' = admins
       /\ \A a, b \in admins' : a.email = b.email => a = b]_vars

\* C10 witness: a second registration of a stored email was just refused
\* while both emails are registered.
C10_Witness ==
    /\ res.op = "register"
    /\ res.error = "Admin already exists"
    /\ Cardinality(admins) = 2

\* C11 (as claimed): a delete of a stored course removes exactly that course
\* and leaves every other course as it was; a delete of an id that resolves
\* to no course fails with NotFound (404) and leaves the store unchanged.
C11_DeleteExactlyOrNotFound ==
    [][\A admin \in admins : \A courseId \in CourseIds :
          res'.op = "delete" /\ res'.admin = admin.id
          /\ handleCourseDelete(admin, courseId) =>
              IF \E c \in courses : c.id = courseId
              THEN /\ res'.status = 200
                   /\ courses' = {c \in courses : c.id # courseId}
              ELSE /\ res'.status = 404
                   /\ res'.error # ""
                   /\ courses' = courses]_vars

\* What the delete handler does keep of C11: exact removal, and an error
\* answer with an untouched store for an id that resolves to no course.
DeleteRemovesExactly ==
    [][\A admin \in admins : \A courseId \in CourseIds :
          res'.op = "delete" /\ res'.admin = admin.id
          /\ handleCourseDelete(admin, courseId) =>
              IF \E c \in courses : c.id = courseId
              THEN /\ res'.status = 200
                   /\ courses' = {c \in courses : c.id # courseId}
              ELSE /\ res'.status = 500
                   /\ res'.error = "Error in deleting course"
                   /\ courses' = courses]_vars

\* C12: every course a create by admin A persists has createdBy = A.id,
\* ownerName = A.firstName + " " + A.lastName, and the submitted title,
\* description and price; a create adds at most one course and none that is
\* attributed to another admin.
C12_CreatedCourseAttributed ==
    [][\A admin \in admins : \A body \in ValidCreateBodies :
          res'.op = "create" /\ res'.admin = admin.id
          /\ handleCourseCreation(admin, body) =>
              /\ Cardinality(courses' \ courses) <= 1
              /\ res'.status = 201 => courses' # courses
              /\ \A c \in courses' \ courses :
                    /\ c.createdBy = admin.id
                    /\ c.ownerName = <<admin.firstName, " ", admin.lastName>>
                    /\ admin.id = 2 => c.ownerName = <<"John", " ", "Doe">>
                    /\ c.title = body.title
                    /\ c.description = body.description
                    /\ c.price = body.price]_vars

\* C12 witness: the second admin's create was just answered 201 and stored a
\* course under his id and name, next to a course of the first admin.
C12_Witness ==
    /\ res.op = "create"
    /\ res.status = 201
    /\ res.admin = 2
    /\ \E c \in res.data :
          c \in courses /\ c.createdBy = 2 /\ c.ownerName = <<"John", " ", "Doe">>
    /\ \E c \in courses : c.createdBy = 1

\* Of the price values a request can carry, the well-formed numeric strings.
NumericPrices == {"10"}

\* C13 (as claimed): a create whose price is not a numeric string is answered
\* with a validation error before the image is read and before any change;
\* no create ever persists a course with a non-numeric price.
C13_CreateRejectsBadPrice ==
    [][/\ \A admin \in admins : \A body \in CreateBodies :
             body.price \notin NumericPrices
             /\ res'.op = "create" /\ res'.admin = admin.id
             /\ handleCourseCreation(admin, body) =>
                 /\ res'.status = 400
                 /\ res'.error # ""
                 /\ res'.image = "unread"
                 /\ courses' = courses
       /\ res'.op = "create" =>
             \A c \in courses' \ courses : c.price \in NumericPrices]_vars

\* C14: logout changes no server state, so after any logout every token that
\* login issued is still a cookie a client can send and still passes the gate
\* of every protected operation; a logout without a resolved admin fails and
\* clears nothing, any other logout is answered 200 and only clears the
\* adminSessionId cookie.
C14_LogoutIsNotRevocation ==
    [][res'.op = "logout" =>
          /\ admins' = admins
          /\ courses' = courses
          /\ nextCourseId' = nextCourseId
          /\ adminJwtSecret' = adminJwtSecret
          /\ issued' = issued
          /\ \A t \in issued :
                /\ checkAuth(t)' = checkAuth(t)
                /\ \A route \in ProtectedOperations :
                      Blocked(route, t)' = Blocked(route, t)
          /\ res'.admin = 0 =>
                /\ res'.status \in {400, 401}
                /\ res'.error # ""
                /\ ~res'.clearCookie
          /\ res'.admin # 0 =>
                /\ res'.status = 200
                /\ res'.clearCookie
                /\ res'.setCookie = {}
                /\ res'.data = {}
                /\ \A t \in issued :
                      /\ t \in Cookies'
                      /\ \A route \in ProtectedOperations : ~Blocked(route, t)']_vars

\* C14 witness: the first admin has just logged out, and the token login
\* gave him still resolves to him at the gate.
C14_Witness ==
    /\ res.op = "logout"
    /\ res.status = 200
    /\ res.clearCookie
    /\ \E t \in issued :
          /\ t.sub = res.admin
          /\ checkAuth(t) # NoAdmin
          /\ checkAuth(t).id = res.admin
          /\ ~Blocked("delete", t)

\* C15 (as claimed): with no signing secret configured the service issues no
\* session token, and no token is ever signed with the built-in default key.
C15_NoTokenWithoutSecret ==
    /\ adminJwtSecret = NoSecret => issued = {} /\ res.setCookie = {}
    /\ \A t \in issued : t.sig # "qazplm"

\* C16: the duplicate check and the insert are separate steps with nothing
\* held between them: a create that passed the check and whose upload
\* returned a URL is answered 201 and adds one course with its title and its
\* admin, whatever has been stored since its check; so two creates of one
\* admin with one title that both pass the check both succeed.
C16_CheckThenCreateRaces ==
    [][\A i \in Requests :
          pending[i].stage = "creating" /\ pending'[i] = Idle =>
              /\ res'.op = "create"
              /\ res'.status = 201
              /\ \E c \in courses' \ courses :
                    /\ c.title = pending[i].title
                    /\ c.createdBy = pending[i].admin.id
                    /\ courses' = courses \cup {c}]_vars

\* C16 witness: both racing creates have been answered, the last one 201,
\* and the store holds two courses with the same (title, createdBy).
C16_Witness ==
    /\ res.op = "create"
    /\ res.status = 201
    /\ \A i \in Requests : pending[i] = Idle
    /\ \E c, d \in courses :
          /\ c.id # d.id
          /\ c.title = d.title
          /\ c.createdBy = d.createdBy
          /\ d \in res.data

\* The ids of courses that were created and have since been deleted: ids are
\* handed out in order, so an id below nextCourseId with no stored course.
DeletedIds == {id \in CourseIds : id < nextCourseId /\ \A c \in courses : c.id # id}

\* Update bodies that pass validation.
ValidUpdateBodies == {b \in UpdateBodies : courseSchema(b)}

\* C17 (as claimed): a deleted course id never refers to a stored course
\* again; every later update or delete on it fails with NotFound (404) and
\* changes no course.
C17_DeletedIsTerminal ==
    [][\A id \in DeletedIds :
          /\ \A c \in courses' : c.id # id
          /\ res'.op = "update" =>
                \A admin \in admins : \A body \in ValidUpdateBodies :
                    res'.admin = admin.id /\ handleCourseUpdate(admin, id, body) =>
                        res'.status = 404 /\ res'.error # "" /\ courses' = courses
          /\ res'.op = "delete" =>
                \A admin \in admins :
                    res'.admin = admin.id /\ handleCourseDelete(admin, id) =>
                        res'.status = 404 /\ res'.error # "" /\ courses' = courses]_vars

\* What the handlers do keep of C17: a deleted id stays without a course, and
\* an update or a delete on it is answered with an error and changes nothing.
DeletedStaysDeleted ==
    [][\A id \in DeletedIds :
          /\ \A c \in courses' : c.id # id
          /\ res'.op = "update" =>
                \A admin \in admins : \A body \in ValidUpdateBodies :
                    res'.admin = admin.id /\ handleCourseUpdate(admin, id, body) =>
                        /\ res'.status = 500
                        /\ res'.error = "Error in updating course"
                        /\ courses' = courses
          /\ res'.op = "delete" =>
                \A admin \in admins :
                    res'.admin = admin.id /\ handleCourseDelete(admin, id) =>
                        /\ res'.status = 500
                        /\ res'.error = "Error in deleting course"
                        /\ courses' = courses]_vars

\* C18: as long as a course is stored, no request changes its createdBy, its
\* ownerName or its imageURL, whoever sends it; an update writes title,
\* description and price only.
C18_OwnerReferenceImmutable ==
    [][\A c \in courses : \A d \in courses' :
          d.id = c.id =>
              /\ d.createdBy = c.createdBy
              /\ d.ownerName = c.ownerName
              /\ d.imageURL = c.imageURL]_vars

\* C18 witness: the second admin has just updated a course of the first
\* admin, and the stored course still names the first admin as its owner.
C18_Witness ==
    /\ res.op = "update"
    /\ res.status = 200
    /\ res.admin = 2
    /\ \E c \in res.data :
          /\ c \in courses
          /\ c.createdBy = 1
          /\ c.ownerName = <<"Jane", " ", "Doe">>
          /\ c.imageURL \in UploadedURLs

----------------------------------------------------------------------------
(* Store and library calls that throw.  A handler whose body is a try block *)
(* answers from its catch block; a rejection of a handler without one       *)
(* leaves the handler.                                                      *)

\* The handlers whose body is wrapped in try { ... } catch.
CatchingHandlers == {"login", "create", "list", "update", "delete"}

\* The awaited calls of each handler that can throw.
ThrowingCalls ==
    [register |-> {"Admin.findOne", "hashPass", "Admin.create"},
     login |-> {"Admin.findOne", "verifyPass", "signToken"},
     create |-> {"Course.findOne", "Course.create"},
     list |-> {"Course.find"},
     update |-> {"Course.findByIdAndUpdate"},
     delete |-> {"Course.findByIdAndDelete"}]

\* What the client gets when a rejection leaves an async handler: nothing
\* (the router does not see the rejection) or the router's own 500 page,
\* depending on the Express version; neither is an {error} envelope.
EscapeStatuses == {0, 500}

\* The response to a request whose call `call` threw.
Thrown(op, admin, call) ==
    /\ UNCHANGED <<adminJwtSecret, admins, courses, nextCourseId, issued, pending>>
    /\ IF op \in CatchingHandlers
       THEN res' = [Caught(op, admin, "store error") EXCEPT !.thrown = call]
       ELSE \E status \in EscapeStatuses :
                res' = [Response(op, admin, status) EXCEPT !.thrown = call]

\* handleAdminRegister with a call that throws: Admin.findOne on a valid
\* body, hashPass and Admin.create once the email was found free.
RegisterThrows ==
    \E body \in ValidRegisterBodies : \E call \in ThrowingCalls.register :
        /\ call # "Admin.findOne" => AdminFindOne(body.email) = {}
        /\ Thrown("register", NoAdmin, call)

\* handleAdminLogin with a call that throws: Admin.findOne on a valid body,
\* verifyPass once the admin was found, signToken once the password passed.
LoginThrows ==
    \E body \in {b \in LoginBodies : loginSchema(b)} : \E call \in ThrowingCalls.login :
        /\ call # "Admin.findOne" => AdminFindOne(body.email) # {}
        /\ call = "signToken" =>
              \E a \in AdminFindOne(body.email) : verifyPass(body.password, a.password)
        /\ Thrown("login", NoAdmin, call)

\* A course handler behind the gate with a store call that throws.
CourseThrows ==
    \E cookie \in Cookies : \E op \in {"create", "list", "update", "delete"} :
        /\ ~Blocked(op, cookie)
        /\ \E call \in ThrowingCalls[op] : Thrown(op, reqAdmin(op, cookie), call)

FaultNext ==
    \/ RegisterThrows
    \/ LoginThrows
    \/ CourseThrows
    \/ Next

SpecFaults == Init /\ [][FaultNext]_vars

\* C19 (as claimed): whenever a call inside a handler throws, the request is
\* answered, and answered with an {error} envelope.
C19_EveryFailureCaught ==
    res.thrown # "" => res.status # 0 /\ res.error # ""

\* What the handlers do keep of C19: a call that throws inside login or a
\* course handler is answered from the catch block with {error}.
FailuresCaughtInsideTry ==
    res.thrown # "" /\ res.op # "register" =>
        res.status = 200 /\ res.error # "" /\ res.data = {} /\ res.setCookie = {}

====
